---- MODULE Spec2Model ----
(***************************************************************************)
(* The Azure Bastion provisioner of plugins/modules/azure_rm_bastion.py    *)
(* (SDK transport) and plugins/modules/azure_rm_bastion_rest.py (REST      *)
(* transport): one module invocation (exec_module) after another against   *)
(* the same cloud.                                                         *)
(***************************************************************************)
EXTENDS Integers, Sequences, FiniteSets, TLC

\* Number of consecutive module invocations explored.
MaxRuns == 2

\* Python's None, and the values a module parameter of type str may take.
NoneVal == "None"

\* Mutant of Falsy: only None counts as missing (`is None` for `not`).
FalsyNoneOnly(v) == v = NoneVal

Falsy(v) == v \in {NoneVal, ""}

\* The module parameters: the public IP name is fixed, the rest varies.
public_ip_name == "pip1"
CidrValues == {NoneVal, "", "10.0.1.0/26"}
Variants == {"sdk", "rest"}
States == {"present", "absent"}

\* Provisioning states a stored resource can be in.
AZURE_SUCCESS_STATE == "Succeeded"
ProvisioningStates == {AZURE_SUCCESS_STATE, "Failed", "Updating"}

\* Resource ids as the cloud builds them.
SubnetId == "/rg1/virtualNetworks/vnet1/subnets/AzureBastionSubnet"
PipId == "/rg1/publicIPAddresses/pip1"
BastionId == "/rg1/bastionHosts/bh1"
RgLocation == "eastus"
DnsName == "bst-bh1.bastion.azure.com"

VARIABLES
    remote,      \* the cloud: subnet, pip, bastion, each <<>> or <<resource>>
    params,      \* the module parameters of the current invocation
    pc,          \* position of the current invocation in exec_module
    changed,     \* exec_module's local `changed`
    location,    \* self.location
    subnet_id,   \* self.subnet_id
    pip_id,      \* self.pip_id
    results,     \* self.results
    calls,       \* the gateway calls the current invocation has issued, in order
    failure,     \* why the current invocation failed ("none" if it has not)
    run,         \* index of the current invocation
    start,       \* the cloud as the current invocation found it
    prev         \* <<>> or <<the finished previous invocation>>

vars == <<remote, params, pc, changed, location, subnet_id, pip_id, results,
          calls, failure, run, start, prev>>

-----------------------------------------------------------------------------
\* The cloud's resources.

Subnet(ps, prefix) ==
    [id |-> SubnetId, provisioning_state |-> ps, address_prefix |-> prefix]

PublicIp(ps, loc) ==
    [id |-> PipId, provisioning_state |-> ps, location |-> loc,
     public_ip_allocation_method |-> "Static",
     public_ip_address_version |-> "IPv4", sku |-> "Standard"]

\* A bastion host as the service stores it: the dns name is the service's.
BastionHost(ps, body) ==
    [id |-> BastionId, provisioning_state |-> ps,
     dns_name |-> IF ps = AZURE_SUCCESS_STATE THEN DnsName ELSE NoneVal,
     location |-> body.location,
     ip_configurations |-> body.ip_configurations]

IpConfiguration(n, sid, pid) ==
    [name |-> n, subnet |-> [id |-> sid], public_ip_address |-> [id |-> pid]]

Optional(S) == {<<>>} \cup {<<r>> : r \in S}

InitialRemotes ==
    [subnet : Optional({Subnet(ps, "10.0.1.0/26") : ps \in ProvisioningStates}),
     pip : Optional({PublicIp(ps, RgLocation) : ps \in ProvisioningStates}),
     bastion : Optional({BastionHost(ps,
                   [location |-> RgLocation,
                    ip_configurations |->
                        <<IpConfiguration(public_ip_name, SubnetId, PipId)>>])
                 : ps \in ProvisioningStates})]

ParamSets ==
    [variant : Variants, state : States, check_mode : BOOLEAN,
     subnet_address_prefix_cidr : CidrValues]

-----------------------------------------------------------------------------
\* The gateway: every call is logged with its answer.

GetAnswers == {"truth", "error"}
MutateAnswers == {"ok", "error"}

Call(op, res, ans, body) == [op |-> op, res |-> res, ans |-> ans, body |-> body]

\* A query of resource `res`: found, notfound (404 / ResourceNotFoundError),
\* or any other error.
GetCall(res, g) ==
    Call("GET", res,
         IF g = "error" THEN "error"
         ELSE IF remote[res] = <<>> THEN "notfound" ELSE "found", <<>>)

PutCall(res, p, body) == Call("PUT", res, p, <<body>>)

DeleteCall(res, p) == Call("DELETE", res, p, <<>>)

\* azure_rm_common.check_provisioning_state: an object that is not in the
\* success state is an error unless it is about to be deleted.
check_provisioning_state(obj, requested_state) ==
    obj.provisioning_state = AZURE_SUCCESS_STATE \/ requested_state = "absent"

\* Mutant of Truthy: every answer is taken for a missing resource.
TruthyNever(r) == FALSE

\* Whether a queried REST resource is truthy (`if not subnet`, `if bastion`).
Truthy(r) == r # <<>>

-----------------------------------------------------------------------------
\* The next state of an invocation step.

Goto(pc2, remote2, changed2, subnet_id2, pip_id2, results2, calls2) ==
    /\ pc' = pc2
    /\ remote' = remote2
    /\ changed' = changed2
    /\ subnet_id' = subnet_id2
    /\ pip_id' = pip_id2
    /\ results' = results2
    /\ calls' = calls2
    /\ failure' = "none"
    /\ UNCHANGED <<params, location, run, start, prev>>

\* Mutant of Fail: the error is swallowed and exec_module goes on to return.
FailContinues(kind, remote2, calls2) ==
    /\ pc' = "return"
    /\ failure' = kind
    /\ remote' = remote2
    /\ calls' = calls2
    /\ UNCHANGED <<params, changed, location, subnet_id, pip_id, results, run,
                   start, prev>>

\* self.fail(...) (fail_json exits the process) or an uncaught exception.
Fail(kind, remote2, calls2) ==
    /\ pc' = "failed"
    /\ failure' = kind
    /\ remote' = remote2
    /\ calls' = calls2
    /\ UNCHANGED <<params, changed, location, subnet_id, pip_id, results, run,
                   start, prev>>

Init ==
    /\ remote \in InitialRemotes
    /\ params \in ParamSets
    /\ pc = "start"
    /\ changed = FALSE
    /\ location = NoneVal
    /\ subnet_id = NoneVal
    /\ pip_id = NoneVal
    /\ results = [changed |-> FALSE, state |-> <<>>]
    /\ calls = <<>>
    /\ failure = "none"
    /\ run = 1
    /\ start = remote
    /\ prev = <<>>

-----------------------------------------------------------------------------
\* exec_module, up to the first step: the resource group lookup, the default
\* location, and the branch on self.state.

\* Mutant of FirstStep: the subnet and public IP steps run for any state.
FirstStepAlwaysSubnet(st) == "subnet"

FirstStep(st) == IF st = "present" THEN "subnet" ELSE "bastion"

exec_module_begin(g) ==
    LET q == Call("GET", "rg", IF g = "error" THEN "error" ELSE "found", <<>>) IN
    IF g = "error"
    THEN Fail("remote", remote, calls \o <<q>>)
    ELSE /\ pc' = FirstStep(params.state)
         /\ location' = RgLocation
         /\ changed' = FALSE
         /\ calls' = calls \o <<q>>
         /\ UNCHANGED <<remote, params, subnet_id, pip_id, results, failure,
                        run, start, prev>>

ExecModuleBegin ==
    /\ pc = "start"
    /\ \E g \in GetAnswers : exec_module_begin(g)

-----------------------------------------------------------------------------
\* SDK variant.

sdk_create_subnet(g, p) ==
    LET q == calls \o <<GetCall("subnet", g)>>
        new == Subnet(AZURE_SUCCESS_STATE, params.subnet_address_prefix_cidr)
        put == q \o <<PutCall("subnet", p,
                    [address_prefix |-> params.subnet_address_prefix_cidr])>>
    IN
    IF g = "error" THEN Fail("remote", remote, q)
    ELSE IF remote.subnet # <<>>
    THEN IF ~check_provisioning_state(remote.subnet[1], "present")
         THEN Fail("provisioning_state", remote, q)
         ELSE Goto("pip", remote, FALSE, remote.subnet[1].id, pip_id, results, q)
    ELSE \* ResourceNotFoundError
         IF Falsy(params.subnet_address_prefix_cidr)
         THEN Fail("config", remote, q)
         ELSE IF ~params.check_mode
         THEN IF p = "error"
              THEN Fail("remote", remote, put)
              ELSE Goto("pip", [remote EXCEPT !.subnet = <<new>>], TRUE,
                        new.id, pip_id, results, put)
         ELSE \* `subnet` was never bound: subnet.id raises UnboundLocalError
              Fail("crash", remote, q)

SdkCreateSubnet ==
    /\ pc = "subnet"
    /\ params.variant = "sdk"
    /\ \E g \in GetAnswers, p \in MutateAnswers : sdk_create_subnet(g, p)

sdk_create_public_ip(g, p) ==
    LET q == calls \o <<GetCall("pip", g)>>
        new == PublicIp(AZURE_SUCCESS_STATE, location)
        put == q \o <<PutCall("pip", p,
                    [public_ip_allocation_method |-> "Static",
                     public_ip_address_version |-> "IPv4",
                     location |-> location, sku |-> "Standard"])>>
    IN
    IF g = "error" THEN Fail("remote", remote, q)
    ELSE IF remote.pip # <<>>
    THEN IF ~check_provisioning_state(remote.pip[1], "present")
         THEN Fail("provisioning_state", remote, q)
         ELSE Goto("bastion", remote, FALSE, subnet_id, remote.pip[1].id,
                   results, q)
    ELSE \* ResourceNotFoundError
         IF ~params.check_mode
         THEN IF p = "error"
              THEN Fail("remote", remote, put)
              ELSE Goto("bastion", [remote EXCEPT !.pip = <<new>>], TRUE,
                        subnet_id, new.id, results, put)
         ELSE \* `pip` was never bound: pip.id raises UnboundLocalError
              Fail("crash", remote, q)

SdkCreatePublicIp ==
    /\ pc = "pip"
    /\ params.variant = "sdk"
    /\ \E g \in GetAnswers, p \in MutateAnswers : sdk_create_public_ip(g, p)

\* The summary of a bastion host: dns_name only when it is set.
bastion_to_dict(bastion) ==
    LET confs == [i \in 1..Len(bastion.ip_configurations) |->
                    [name |-> bastion.ip_configurations[i].name,
                     subnet_id |-> bastion.ip_configurations[i].subnet.id]]
    IN IF Falsy(bastion.dns_name)
       THEN [ip_configurations |-> confs]
       ELSE [ip_configurations |-> confs, dns_name |-> bastion.dns_name]

\* Mutant of BastionBody: the subnet id and the public IP id are swapped.
BastionBodySwapped ==
    [location |-> location,
     ip_configurations |->
         <<IpConfiguration(public_ip_name, pip_id, subnet_id)>>]

\* The body of the bastion host create call (identical in both variants).
BastionBody ==
    [location |-> location,
     ip_configurations |->
         <<IpConfiguration(public_ip_name, subnet_id, pip_id)>>]

\* Mutant of IsPresent: the test of self.state is dropped.
IsPresentAlways(st) == TRUE

\* `self.state == "present"` where a missing bastion host is created.
IsPresent(st) == st = "present"

sdk_create_or_delete_bastion(g, p) ==
    LET q == calls \o <<GetCall("bastion", g)>>
        del == q \o <<DeleteCall("bastion", p)>>
        put == q \o <<PutCall("bastion", p, BastionBody)>>
        new == BastionHost(AZURE_SUCCESS_STATE, BastionBody)
    IN
    IF g = "error" THEN Fail("remote", remote, q)
    ELSE IF remote.bastion # <<>>
    THEN IF ~check_provisioning_state(remote.bastion[1], params.state)
         THEN Fail("provisioning_state", remote, q)
         ELSE IF params.state = "absent"
         THEN IF ~params.check_mode
              THEN IF p = "error"
                   THEN Fail("remote", remote, del)
                   ELSE Goto("return", [remote EXCEPT !.bastion = <<>>], TRUE,
                             subnet_id, pip_id, results, del)
              ELSE Goto("return", remote, TRUE, subnet_id, pip_id, results, q)
         ELSE Goto("return", remote, FALSE, subnet_id, pip_id,
                   [results EXCEPT !.state =
                        <<bastion_to_dict(remote.bastion[1])>>], q)
    ELSE \* ResourceNotFoundError
         IF IsPresent(params.state)
         THEN IF ~params.check_mode
              THEN IF p = "error"
                   THEN Fail("remote", remote, put)
                   ELSE Goto("return", [remote EXCEPT !.bastion = <<new>>],
                             TRUE, subnet_id, pip_id,
                             [results EXCEPT !.state = <<bastion_to_dict(new)>>],
                             put)
              ELSE Goto("return", remote, TRUE, subnet_id, pip_id, results, q)
         ELSE Goto("return", remote, FALSE, subnet_id, pip_id, results, q)

SdkCreateOrDeleteBastion ==
    /\ pc = "bastion"
    /\ params.variant = "sdk"
    /\ \E g \in GetAnswers, p \in MutateAnswers :
           sdk_create_or_delete_bastion(g, p)

-----------------------------------------------------------------------------
\* REST variant.  get_resource returns None (here <<>>) on a 404 and fails on
\* every other error; create_resource and delete_resource fail on any error.

\* The JSON document of a stored resource, as json.loads returns it.
Json(r) == [kind |-> "json", value |-> r]

JsonNone == [kind |-> "none"]

rest_create_subnet(g, p) ==
    LET q == calls \o <<GetCall("subnet", g)>>
        new == Subnet(AZURE_SUCCESS_STATE, params.subnet_address_prefix_cidr)
        put == q \o <<PutCall("subnet", p,
                    [address_prefix |-> params.subnet_address_prefix_cidr])>>
    IN
    IF g = "error" THEN Fail("remote", remote, q)
    ELSE IF ~Truthy(remote.subnet)
    THEN IF Falsy(params.subnet_address_prefix_cidr)
         THEN Fail("config", remote, q)
         ELSE IF ~params.check_mode
         THEN IF p = "error"
              THEN Fail("remote", remote, put)
              ELSE Goto("pip", [remote EXCEPT !.subnet = <<new>>], TRUE,
                        new.id, pip_id, results, put)
         ELSE \* subnet is None: subnet.get("id") raises AttributeError
              Fail("crash", remote, q)
    ELSE Goto("pip", remote, FALSE, remote.subnet[1].id, pip_id, results, q)

RestCreateSubnet ==
    /\ pc = "subnet"
    /\ params.variant = "rest"
    /\ \E g \in GetAnswers, p \in MutateAnswers : rest_create_subnet(g, p)

rest_create_public_ip(g, p) ==
    LET q == calls \o <<GetCall("pip", g)>>
        new == PublicIp(AZURE_SUCCESS_STATE, location)
        put == q \o <<PutCall("pip", p,
                    [public_ip_allocation_method |-> "Static",
                     public_ip_address_version |-> "IPv4",
                     location |-> location, sku |-> "Standard"])>>
    IN
    IF g = "error" THEN Fail("remote", remote, q)
    ELSE IF ~Truthy(remote.pip)
    THEN IF ~params.check_mode
         THEN IF p = "error"
              THEN Fail("remote", remote, put)
              ELSE Goto("bastion", [remote EXCEPT !.pip = <<new>>], TRUE,
                        subnet_id, new.id, results, put)
         ELSE \* pip is None: pip.get("id") raises AttributeError
              Fail("crash", remote, q)
    ELSE Goto("bastion", remote, FALSE, subnet_id, remote.pip[1].id, results, q)

RestCreatePublicIp ==
    /\ pc = "pip"
    /\ params.variant = "rest"
    /\ \E g \in GetAnswers, p \in MutateAnswers : rest_create_public_ip(g, p)

rest_create_or_delete_bastion(g, p) ==
    LET q == calls \o <<GetCall("bastion", g)>>
        del == q \o <<DeleteCall("bastion", p)>>
        put == q \o <<PutCall("bastion", p, BastionBody)>>
        new == BastionHost(AZURE_SUCCESS_STATE, BastionBody)
    IN
    IF g = "error" THEN Fail("remote", remote, q)
    ELSE IF IsPresent(params.state)
    THEN IF ~Truthy(remote.bastion)
         THEN IF ~params.check_mode
              THEN IF p = "error"
                   THEN Fail("remote", remote, put)
                   ELSE Goto("return", [remote EXCEPT !.bastion = <<new>>],
                             TRUE, subnet_id, pip_id,
                             [results EXCEPT !.state = <<Json(new)>>], put)
              ELSE Goto("return", remote, TRUE, subnet_id, pip_id,
                        [results EXCEPT !.state = <<JsonNone>>], q)
         ELSE Goto("return", remote, FALSE, subnet_id, pip_id, results, q)
    ELSE IF Truthy(remote.bastion)
         THEN \* delete_resource is called whatever check_mode is
              IF p = "error"
              THEN Fail("remote", remote, del)
              ELSE Goto("return", [remote EXCEPT !.bastion = <<>>], TRUE,
                        subnet_id, pip_id, results, del)
         ELSE Goto("return", remote, FALSE, subnet_id, pip_id, results, q)

RestCreateOrDeleteBastion ==
    /\ pc = "bastion"
    /\ params.variant = "rest"
    /\ \E g \in GetAnswers, p \in MutateAnswers :
           rest_create_or_delete_bastion(g, p)

-----------------------------------------------------------------------------
\* exec_module's end: self.results['changed'] = changed; return self.results

ExecModuleReturn ==
    /\ pc = "return"
    /\ pc' = "done"
    /\ results' = [results EXCEPT !.changed = changed]
    /\ UNCHANGED <<remote, params, changed, location, subnet_id, pip_id, calls,
                   failure, run, start, prev>>

\* The finished invocation, as the next one remembers it.
Finished ==
    [params |-> params, start |-> start, pc |-> pc, results |-> results,
     calls |-> calls, failure |-> failure]

\* A fresh process and a fresh AzureRMBastion object, with parameters ps,
\* against the cloud env.
NewRun(ps, env) ==
    /\ params' = ps
    /\ remote' = env
    /\ start' = env
    /\ run' = run + 1
    /\ prev' = <<Finished>>
    /\ pc' = "start"
    /\ changed' = FALSE
    /\ location' = NoneVal
    /\ subnet_id' = NoneVal
    /\ pip_id' = NoneVal
    /\ results' = [changed |-> FALSE, state |-> <<>>]
    /\ calls' = <<>>
    /\ failure' = "none"

\* The same module is invoked again, with any parameters, against the cloud
\* as the previous invocation left it.
Invoke ==
    /\ pc \in {"done", "failed"}
    /\ run < MaxRuns
    /\ \E ps \in ParamSets :
           /\ ps.variant = params.variant
           /\ NewRun(ps, remote)

\* The equivalent invocation (the other variant, or the other check mode, or
\* both) against a cloud in the state the previous invocation started from.
InvokeEquivalent ==
    /\ pc \in {"done", "failed"}
    /\ run < MaxRuns
    /\ \E ps \in ParamSets :
           /\ ps.state = params.state
           /\ ps.subnet_address_prefix_cidr = params.subnet_address_prefix_cidr
           /\ ps # params
           /\ NewRun(ps, start)

Next ==
    \/ ExecModuleBegin
    \/ SdkCreateSubnet
    \/ SdkCreatePublicIp
    \/ SdkCreateOrDeleteBastion
    \/ RestCreateSubnet
    \/ RestCreatePublicIp
    \/ RestCreateOrDeleteBastion
    \/ ExecModuleReturn
    \/ Invoke
    \/ InvokeEquivalent

Spec == Init /\ [][Next]_vars

-----------------------------------------------------------------------------
\* Vocabulary of the properties.

Mutating(c) == c.op \in {"PUT", "DELETE"}

Answered(cs, res, ans) ==
    \E i \in DOMAIN cs : cs[i].op = "GET" /\ cs[i].res = res /\ cs[i].ans = ans

NoGatewayError(cs) == \A i \in DOMAIN cs : cs[i].ans # "error"

Ops(cs) == [i \in DOMAIN cs |-> <<cs[i].op, cs[i].res>>]

EmptyRemote == [subnet |-> <<>>, pip |-> <<>>, bastion |-> <<>>]

AllSucceeded(env) ==
    \A r \in {"subnet", "pip", "bastion"} :
        env[r] # <<>> /\ env[r][1].provisioning_state = "Succeeded"

AbsentOrSucceeded(env) ==
    \A r \in {"subnet", "pip", "bastion"} :
        env[r] = <<>> \/ env[r][1].provisioning_state = "Succeeded"

Rank(c) ==
    2 * (CASE c.res = "rg" -> 0 [] c.res = "subnet" -> 1
           [] c.res = "pip" -> 2 [] c.res = "bastion" -> 3)
    + (IF c.op = "GET" THEN 0 ELSE 1)

-----------------------------------------------------------------------------
\* C1: a real run that completes reports changed = true exactly when it
\* issued at least one create or delete call.
C1_ChangedIffMutated ==
    (pc = "done" /\ ~params.check_mode) =>
        (results.changed <=> \E i \in DOMAIN calls : Mutating(calls[i]))

\* C2: in check mode no create (PUT) or delete (DELETE) call is ever issued.
C2_DryRunIssuesNoMutation ==
    params.check_mode => \A i \in DOMAIN calls : ~Mutating(calls[i])

\* C3: of a dry run and the equivalent real run from the same initial state
\* (same variant, state and CIDR, no gateway error in either), if the real
\* run completes then so does the dry run, with the same `changed`.
C3_DryRunMatchesRealRun ==
    (prev # <<>> /\ pc \in {"done", "failed"}) =>
        LET a == prev[1]
            b == Finished
            dry == IF a.params.check_mode THEN a ELSE b
            real == IF a.params.check_mode THEN b ELSE a
        IN (/\ a.params.check_mode # b.params.check_mode
            /\ a.params.variant = b.params.variant
            /\ a.params.state = b.params.state
            /\ a.params.subnet_address_prefix_cidr
                   = b.params.subnet_address_prefix_cidr
            /\ a.start = b.start
            /\ NoGatewayError(a.calls) /\ NoGatewayError(b.calls)
            /\ real.pc = "done")
           => (dry.pc = "done" /\ dry.results.changed = real.results.changed)

\* C4: two consecutive real state=present runs with the same parameters (CIDR
\* supplied) from an empty environment: changed is true then false, the
\* second run issues no create, and the `state` summary is present and the
\* same in both results.
C4_Idempotent ==
    (/\ prev # <<>> /\ pc = "done"
     /\ prev[1].pc = "done"
     /\ prev[1].params = params
     /\ prev[1].start = EmptyRemote
     /\ params.state = "present" /\ ~params.check_mode
     /\ params.subnet_address_prefix_cidr \notin {NoneVal, ""})
    => /\ prev[1].results.changed
       /\ ~results.changed
       /\ \A i \in DOMAIN calls : calls[i].op # "PUT"
       /\ results.state # <<>>
       /\ results.state = prev[1].results.state

\* C5: the SDK run and the REST run with the same parameters from the same
\* initial remote state (here: every resource absent or Succeeded, and no
\* gateway error in either run) issue the same sequence of operations and
\* end alike: both fail or both succeed, with the same `changed` and with
\* `state` present in both results or in neither.
C5_VariantsEquivalent ==
    (prev # <<>> /\ pc \in {"done", "failed"}) =>
        LET a == prev[1]
            b == Finished
        IN (/\ a.params.variant # b.params.variant
            /\ a.params.state = b.params.state
            /\ a.params.check_mode = b.params.check_mode
            /\ a.params.subnet_address_prefix_cidr
                   = b.params.subnet_address_prefix_cidr
            /\ a.start = b.start
            /\ AbsentOrSucceeded(a.start)
            /\ NoGatewayError(a.calls) /\ NoGatewayError(b.calls))
           => /\ Ops(a.calls) = Ops(b.calls)
              /\ a.pc = b.pc
              /\ a.pc = "done" =>
                     /\ a.results.changed = b.results.changed
                     /\ (a.results.state = <<>>) <=> (b.results.state = <<>>)

\* C6: in a real state=absent run whose query finds the bastion host, exactly
\* one delete call is issued, on the bastion host; the run reports changed
\* (it fails only if that delete itself errors); the subnet and the public IP
\* are neither queried, created nor deleted.
C6_AbsentDeletesOnlyBastion ==
    (/\ params.state = "absent" /\ ~params.check_mode
     /\ Answered(calls, "bastion", "found"))
    => /\ Cardinality({i \in DOMAIN calls : calls[i].op = "DELETE"}) = 1
       /\ \A i \in DOMAIN calls :
              /\ calls[i].op = "DELETE" => calls[i].res = "bastion"
              /\ calls[i].op # "PUT"
              /\ calls[i].res \notin {"subnet", "pip"}
       /\ remote.subnet = start.subnet /\ remote.pip = start.pip
       /\ pc \in {"return", "done", "failed"}
       /\ pc = "return" => changed
       /\ pc = "done" => results.changed /\ remote.bastion = <<>>
       /\ pc = "failed" =>
              /\ calls[Len(calls)].op = "DELETE"
              /\ calls[Len(calls)].ans = "error"

C6_Witness ==
    /\ params.state = "absent" /\ ~params.check_mode /\ pc = "done"
    /\ \E i \in DOMAIN calls : calls[i].op = "DELETE" /\ calls[i].ans = "ok"
    /\ start.subnet # <<>> /\ start.pip # <<>> /\ start.bastion # <<>>

\* C7: in a state=absent run whose query does not find the bastion host, the
\* run does not fail, reports changed = false and issues no create or delete
\* call.
C7_AbsentNotFoundIsNoop ==
    (params.state = "absent" /\ Answered(calls, "bastion", "notfound"))
    => /\ pc \in {"return", "done"}
       /\ failure = "none"
       /\ ~changed
       /\ pc = "done" => ~results.changed
       /\ \A i \in DOMAIN calls : ~Mutating(calls[i])
       /\ remote = start

C7_Witness ==
    /\ params.state = "absent" /\ pc = "done" /\ ~results.changed
    /\ Answered(calls, "bastion", "notfound")

\* C8: in a state=present run that starts with subnet, public IP and bastion
\* host all existing in the Succeeded state, no create and no delete call is
\* issued, the run reports changed = false, and it fails only on a gateway
\* error.
C8_AllExistNoChange ==
    (params.state = "present" /\ AllSucceeded(start))
    => /\ \A i \in DOMAIN calls : ~Mutating(calls[i])
       /\ remote = start
       /\ pc = "return" => ~changed
       /\ pc = "done" => ~results.changed
       /\ pc = "failed" =>
              /\ failure = "remote"
              /\ calls[Len(calls)].op = "GET"
              /\ calls[Len(calls)].ans = "error"

C8_Witness ==
    /\ params.state = "present" /\ AllSucceeded(start) /\ pc = "done"
    /\ Len(calls) = 4 /\ ~results.changed

\* C9: in a state=present run (dry or real) that starts without the subnet
\* and without a CIDR (None or empty), no create call is ever issued, the run
\* never gets past the subnet step, and once the subnet query has answered
\* not-found the run has failed with a configuration error.
C9_MissingCidrFailsBeforeCreate ==
    (/\ params.state = "present"
     /\ params.subnet_address_prefix_cidr \in {NoneVal, ""}
     /\ start.subnet = <<>>)
    => /\ \A i \in DOMAIN calls : calls[i].op # "PUT"
       /\ remote = start
       /\ pc \in {"start", "subnet", "failed"}
       /\ Answered(calls, "subnet", "notfound") =>
              pc = "failed" /\ failure = "config"

C9_Witness ==
    /\ params.state = "present" /\ params.check_mode
    /\ params.subnet_address_prefix_cidr = ""
    /\ start.subnet = <<>> /\ pc = "failed" /\ failure = "config"
    /\ Answered(calls, "subnet", "notfound")

\* C10: the calls of a run are issued in the order resource group query,
\* subnet query/create, public IP query/create, bastion query/create-or-
\* delete; a bastion create call is issued only in a state=present run after
\* the subnet step and then the public IP step ended with the resource found
\* or created, and its body has exactly one IP configuration, named
\* public_ip_name, with the subnet id and public IP id those steps recorded.
C10_DependencyOrder ==
    /\ \A i, j \in DOMAIN calls : i < j => Rank(calls[i]) < Rank(calls[j])
    /\ \A i \in DOMAIN calls :
           (calls[i].op = "PUT" /\ calls[i].res = "bastion") =>
               LET confs == calls[i].body[1].ip_configurations IN
               /\ params.state = "present"
               /\ \E j, k \in 1..(i - 1) :
                      /\ j < k
                      /\ calls[j].res = "subnet"
                      /\ \/ calls[j].op = "GET" /\ calls[j].ans = "found"
                         \/ calls[j].op = "PUT" /\ calls[j].ans = "ok"
                      /\ calls[k].res = "pip"
                      /\ \/ calls[k].op = "GET" /\ calls[k].ans = "found"
                         \/ calls[k].op = "PUT" /\ calls[k].ans = "ok"
               /\ calls[i - 1].op = "GET" /\ calls[i - 1].res = "bastion"
               /\ calls[i - 1].ans = "notfound"
               /\ remote.subnet # <<>> /\ remote.pip # <<>>
               /\ Len(confs) = 1
               /\ confs[1].name = "pip1"
               /\ confs[1].subnet.id = subnet_id
               /\ confs[1].public_ip_address.id = pip_id
               /\ subnet_id = remote.subnet[1].id
               /\ pip_id = remote.pip[1].id
               /\ subnet_id \notin {NoneVal, ""}
               /\ pip_id \notin {NoneVal, ""}

C10_Witness ==
    /\ pc = "done" /\ start = EmptyRemote /\ Len(calls) = 7
    /\ calls[7].op = "PUT" /\ calls[7].res = "bastion" /\ calls[7].ans = "ok"

\* C11: in a state=present run, once a query has found a subnet, public IP or
\* bastion host whose provisioning state is not Succeeded, no create or
\* delete call follows, and the run does not complete: it ends failed.
C11_BadProvisioningStateIsFatal ==
    \A i \in DOMAIN calls :
        (/\ params.state = "present"
         /\ calls[i].op = "GET" /\ calls[i].ans = "found"
         /\ calls[i].res \in {"subnet", "pip", "bastion"}
         /\ start[calls[i].res] # <<>>
         /\ start[calls[i].res][1].provisioning_state # "Succeeded")
        => /\ \A j \in DOMAIN calls : j > i => ~Mutating(calls[j])
           /\ pc \notin {"return", "done"}

\* C12: a not-found answer to the query of the subnet, the public IP or the
\* bastion host does not by itself end the run in failure (the run fails at
\* that point only for a missing CIDR): in a real state=present run the
\* create call on that resource follows, in a state=absent run nothing is
\* mutated and the run goes on to return; any error answer to a query ends
\* the run in failure with no call after it.
C12_NotFoundIsNotFailure ==
    \A i \in DOMAIN calls :
        /\ (/\ calls[i].op = "GET" /\ calls[i].ans = "notfound"
            /\ calls[i].res \in {"subnet", "pip", "bastion"})
           => /\ (pc = "failed" /\ i = Len(calls)) =>
                     /\ failure = "config"
                     /\ calls[i].res = "subnet"
                     /\ params.subnet_address_prefix_cidr \in {NoneVal, ""}
              /\ (/\ params.state = "present" /\ ~params.check_mode
                  /\ ~(/\ calls[i].res = "subnet"
                       /\ params.subnet_address_prefix_cidr \in {NoneVal, ""}))
                 => /\ i < Len(calls)
                    /\ calls[i + 1].op = "PUT"
                    /\ calls[i + 1].res = calls[i].res
              /\ params.state = "absent" =>
                     /\ pc \in {"return", "done"}
                     /\ \A j \in DOMAIN calls : ~Mutating(calls[j])
        /\ (calls[i].op = "GET" /\ calls[i].ans = "error")
           => /\ pc = "failed" /\ failure = "remote"
              /\ i = Len(calls)

\* C13: an error answer to a create or delete call ends the run at once: the
\* failing call is the last call, the run is failed and returns no result,
\* every resource created earlier in the run still exists, and no delete
\* call was issued on it.
C13_MutationErrorAborts ==
    \A i \in DOMAIN calls :
        (Mutating(calls[i]) /\ calls[i].ans = "error")
        => /\ i = Len(calls)
           /\ pc = "failed" /\ failure = "remote"
           /\ ~results.changed
           /\ \A j \in 1..(i - 1) :
                  (calls[j].op = "PUT" /\ calls[j].ans = "ok")
                  => /\ remote[calls[j].res] # <<>>
                     /\ \A k \in DOMAIN calls :
                            calls[k].op = "DELETE" =>
                                calls[k].res # calls[j].res

C13_Witness ==
    /\ pc = "failed" /\ start = EmptyRemote /\ Len(calls) = 7
    /\ calls[3].op = "PUT" /\ calls[3].res = "subnet" /\ calls[3].ans = "ok"
    /\ calls[5].op = "PUT" /\ calls[5].res = "pip" /\ calls[5].ans = "ok"
    /\ calls[7].op = "PUT" /\ calls[7].res = "bastion"
    /\ calls[7].ans = "error"
    /\ remote.subnet # <<>> /\ remote.pip # <<>> /\ remote.bastion = <<>>
====
